---- MODULE Spec2Model ----
(***************************************************************************)
(* Background task coordinator of the asynchronous shopping assistant.     *)
(*                                                                         *)
(* The notebook shows the background worker _run_browser_task, which       *)
(* registers a task (app.add_async_task), runs the browser work            *)
(* (nova_act.act) and marks the task complete (app.complete_async_task),   *)
(* and the conversational turns that are served while the worker runs.     *)
(* The task registry behind add_async_task / complete_async_task is not    *)
(* part of the sources; its operations (start, complete, get_result) are   *)
(* modelled from the design specification.                                 *)
(***************************************************************************)
EXTENDS Integers, Sequences, FiniteSets, TLC

\* ------------------------------------------------------------------ bounds
MaxTasks == 2
MaxClock == 1
MaxCompleteCalls == 2

\* the execution units that run _run_browser_task in the background
Workers == {"w1", "w2"}
\* identifiers a caller may present: the allocatable ones and one never allocated
IdSpace == 1..(MaxTasks + 1)

None == "none"
Payloads == {"laptops.txt", "headphones.txt"}
Errors == {"ActError"}

NonTerminal == {"pending", "running"}
Terminal == {"completed", "failed"}

VARIABLES
    tasks,      \* TaskRegistry: task identifier -> Task
    nextId,     \* next identifier the registry allocates
    clock,      \* time source of the creation timestamp
    pc,         \* position of each _run_browser_task invocation
    taskId,     \* local task_id of each invocation
    result,     \* local result of each invocation
    success,    \* local success of each invocation
    calls,      \* number of complete calls each invocation has made
    reply,      \* what the conversational handler's last get_result gave
    hist,       \* per task: what its work did and how often it became terminal
    issued,     \* identifiers returned by start, in order of return
    endpoint,   \* status of the runtime endpoint, as the service holds it
    status,     \* notebook: the status last read by the deployment wait
    loop,       \* notebook: position in the deployment wait and what follows it
    polls,      \* notebook: status reads made inside the while loop
    cpc,          \* cleanup cell: the call that comes next
    deleted,      \* cleanup cell: the resources deleted so far, in order
    rolePolicies, \* the inline policies the IAM role has, as the service holds them
    policies,     \* cleanup cell: policies['PolicyNames']
    nextPolicy,   \* cleanup cell: position of the for loop in policies
    failedAt,     \* cleanup cell: the call that raised
    ipc,          \* boto3 invocation cell: the statement that comes next
    contentType,  \* boto3_response["contentType"]
    response,     \* boto3_response["response"]: what is still to be read from it
    content,      \* boto3 invocation cell: content
    events,       \* boto3 invocation cell: events
    shown,        \* the Markdown texts displayed, each as its lines
    escaped,      \* the exception that left the cell
    hpc,          \* Haystack agent_invocation: the statement that comes next
    payload,      \* agent_invocation: the payload argument, as its key/value items
    prompt,       \* agent_invocation: payload after payload.get("prompt", ...)
    user_message, \* agent_invocation: user_message
    agentRun,     \* tool_calling_agent.run: not_started, running or finished
    messages,     \* result["messages"] of the agent run
    text,         \* agent_invocation: result after result["messages"][-1].text
    returned      \* the values agent_invocation has returned

\* the deployed agent's coordinator
coordVars == <<tasks, nextId, clock, pc, taskId, result, success, calls, reply, hist, issued>>
\* the notebook that deploys and invokes it
cleanupVars == <<cpc, deleted, rolePolicies, policies, nextPolicy, failedAt>>
\* the notebook cells other than the deployment wait
invokeVars == <<ipc, contentType, response, content, events, shown, escaped>>
hayVars == <<hpc, payload, prompt, user_message, agentRun, messages, text, returned>>
otherNb == <<cleanupVars, invokeVars, hayVars>>
nbVars == <<endpoint, status, loop, polls, otherNb>>

vars == <<coordVars, nbVars>>

\* the cleanup cell has not been run
CleanupIdle ==
    /\ cpc = "idle"
    /\ deleted = << >>
    /\ rolePolicies = {}
    /\ policies = << >>
    /\ nextPolicy = 1
    /\ failedAt = "none"

\* the boto3 invocation cell has not been run
InvokeIdle ==
    /\ ipc = "idle"
    /\ contentType = ""
    /\ response = << >>
    /\ content = << >>
    /\ events = << >>
    /\ shown = << >>
    /\ escaped = "none"

\* no invocation of the Haystack handler is in progress
HaystackIdle ==
    /\ hpc = "idle"
    /\ payload = {}
    /\ prompt = None
    /\ user_message = [role |-> "user", text |-> None]
    /\ agentRun = "not_started"
    /\ messages = << >>
    /\ text = None
    /\ returned = << >>

OtherIdle == CleanupIdle /\ InvokeIdle /\ HaystackIdle

\* ------------------------------------------------------------ the registry
Task(st, created) ==
    [status |-> st, created |-> created, result |-> None, error |-> None]

IsTerminal(t) == t.status \in Terminal

\* start: a new entry for a new identifier, pending
Register(reg, id, now) ==
    [x \in (DOMAIN reg) \cup {id} |-> IF x = id THEN Task("pending", now) ELSE reg[x]]

\* start: pending -> running, before the handle is returned
MarkRunning(reg, id) ==
    IF reg[id].status = "pending"
    THEN [reg EXCEPT ![id].status = "running"]
    ELSE reg

\* start(description) -> task_id, as one step of the registry
StartTask(reg, id, now) == MarkRunning(Register(reg, id, now), id)

CanComplete_any(reg, id) == id \in DOMAIN reg

CanComplete_not_completed(reg, id) == id \in DOMAIN reg /\ reg[id].status # "completed"

\* complete: whether this call moves the task to completed
CanComplete(reg, id) == id \in DOMAIN reg /\ reg[id].status = "running"

CompleteTask_unguarded(reg, id, value) ==
    IF id \in DOMAIN reg
    THEN [reg EXCEPT ![id].status = "completed", ![id].result = value]
    ELSE reg

\* complete: the status and the result change together, and only once
CompleteTask(reg, id, value) ==
    IF CanComplete(reg, id)
    THEN [reg EXCEPT ![id].status = "completed", ![id].result = value]
    ELSE reg

\* get_result: the current snapshot, or TaskNotFound
Snapshot(reg, id) ==
    IF id \in DOMAIN reg
    THEN [kind |-> "Task", id |-> id, status |-> reg[id].status,
          result |-> reg[id].result, error |-> reg[id].error]
    ELSE [kind |-> "TaskNotFound", id |-> id, status |-> None,
          result |-> None, error |-> None]

\* the bool a call returns, as the caller's local holds it
PyBool(b) == IF b THEN "True" ELSE "False"

NoReply == [kind |-> None, id |-> 0, status |-> None, result |-> None, error |-> None]

\* what has happened to a task: the outcome of its work, the number of terminal
\* transitions made, and whether the function that runs it has been left
NoHist == [work |-> None, value |-> None, transitions |-> 0, exited |-> FALSE]

Changed(reg1, reg2, id) == IF reg1[id] # reg2[id] THEN 1 ELSE 0

\* ---------------------------------------------------------------- initial
Init ==
    /\ tasks = << >>
    /\ nextId = 1
    /\ clock = 0
    /\ pc = [w \in Workers |-> "idle"]
    /\ taskId = [w \in Workers |-> 0]
    /\ result = [w \in Workers |-> None]
    /\ success = [w \in Workers |-> None]
    /\ calls = [w \in Workers |-> 0]
    /\ reply = NoReply
    /\ hist = << >>
    /\ issued = << >>
    /\ endpoint = "READY"
    /\ status = None
    /\ loop = "deployed"
    /\ polls = 0
    /\ OtherIdle

\* ------------------------------------------------------------- the worker
add_async_task_pending(w) ==
    /\ pc[w] = "idle"
    /\ nextId <= MaxTasks
    /\ tasks' = Register(tasks, nextId, clock)
    /\ hist' = [x \in (DOMAIN hist) \cup {nextId} |->
                    IF x = nextId THEN NoHist ELSE hist[x]]
    /\ taskId' = [taskId EXCEPT ![w] = nextId]
    /\ issued' = Append(issued, nextId)
    /\ nextId' = nextId + 1
    /\ pc' = [pc EXCEPT ![w] = "started"]
    /\ UNCHANGED <<nbVars, clock, result, success, calls, reply>>

add_async_task_reuses_id(w) ==
    /\ pc[w] = "idle"
    /\ Len(issued) < MaxTasks
    /\ tasks' = StartTask(tasks, nextId, clock)
    /\ hist' = [x \in (DOMAIN hist) \cup {nextId} |->
                    IF x = nextId THEN NoHist ELSE hist[x]]
    /\ taskId' = [taskId EXCEPT ![w] = nextId]
    /\ issued' = Append(issued, nextId)
    /\ nextId' = nextId
    /\ pc' = [pc EXCEPT ![w] = "started"]
    /\ UNCHANGED <<nbVars, clock, result, success, calls, reply>>

add_async_task_exclusive(w) ==
    /\ pc[w] = "idle"
    /\ nextId <= MaxTasks
    /\ \A t \in DOMAIN tasks : tasks[t].status # "running"
    /\ tasks' = StartTask(tasks, nextId, clock)
    /\ hist' = [x \in (DOMAIN hist) \cup {nextId} |->
                    IF x = nextId THEN NoHist ELSE hist[x]]
    /\ taskId' = [taskId EXCEPT ![w] = nextId]
    /\ issued' = Append(issued, nextId)
    /\ nextId' = nextId + 1
    /\ pc' = [pc EXCEPT ![w] = "started"]
    /\ UNCHANGED <<nbVars, clock, result, success, calls, reply>>

add_async_task_restamps(w) ==
    /\ pc[w] = "idle"
    /\ nextId <= MaxTasks
    /\ tasks' = [x \in (DOMAIN tasks) \cup {nextId} |->
                    IF x = nextId THEN StartTask(tasks, nextId, clock)[x]
                    ELSE [tasks[x] EXCEPT !.created = clock]]
    /\ hist' = [x \in (DOMAIN hist) \cup {nextId} |->
                    IF x = nextId THEN NoHist ELSE hist[x]]
    /\ taskId' = [taskId EXCEPT ![w] = nextId]
    /\ issued' = Append(issued, nextId)
    /\ nextId' = nextId + 1
    /\ pc' = [pc EXCEPT ![w] = "started"]
    /\ UNCHANGED <<nbVars, clock, result, success, calls, reply>>

\* task_id = app.add_async_task("using_browser_tool"): a new identifier is
\* registered as running and handed back
add_async_task(w) ==
    /\ pc[w] = "idle"
    /\ nextId <= MaxTasks
    /\ tasks' = StartTask(tasks, nextId, clock)
    /\ hist' = [x \in (DOMAIN hist) \cup {nextId} |->
                    IF x = nextId THEN NoHist ELSE hist[x]]
    /\ taskId' = [taskId EXCEPT ![w] = nextId]
    /\ issued' = Append(issued, nextId)
    /\ nextId' = nextId + 1
    /\ pc' = [pc EXCEPT ![w] = "started"]
    /\ UNCHANGED <<nbVars, clock, result, success, calls, reply>>

act_returns_discards(w, v) ==
    /\ pc[w] = "started"
    /\ result' = result
    /\ hist' = [hist EXCEPT ![taskId[w]].work = "returned", ![taskId[w]].value = v]
    /\ pc' = [pc EXCEPT ![w] = "acted"]
    /\ UNCHANGED <<nbVars, tasks, nextId, clock, taskId, success, calls, reply, issued>>

act_returns_stores_early(w, v) ==
    /\ pc[w] = "started"
    /\ result' = [result EXCEPT ![w] = v]
    /\ tasks' = [tasks EXCEPT ![taskId[w]].result = v]
    /\ hist' = [hist EXCEPT ![taskId[w]].work = "returned", ![taskId[w]].value = v]
    /\ pc' = [pc EXCEPT ![w] = "acted"]
    /\ UNCHANGED <<nbVars, nextId, clock, taskId, success, calls, reply, issued>>

\* result = nova_act.act(prompt=request, max_steps=5) returns a value
act_returns(w, v) ==
    /\ pc[w] = "started"
    /\ result' = [result EXCEPT ![w] = v]
    /\ hist' = [hist EXCEPT ![taskId[w]].work = "returned", ![taskId[w]].value = v]
    /\ pc' = [pc EXCEPT ![w] = "acted"]
    /\ UNCHANGED <<nbVars, tasks, nextId, clock, taskId, success, calls, reply, issued>>

act_raises_requeues(w, e) ==
    /\ pc[w] = "started"
    /\ tasks' = [tasks EXCEPT ![taskId[w]].status = "pending"]
    /\ hist' = [hist EXCEPT ![taskId[w]].work = "raised", ![taskId[w]].value = e,
                            ![taskId[w]].exited = TRUE]
    /\ pc' = [pc EXCEPT ![w] = "raised"]
    /\ UNCHANGED <<nbVars, nextId, clock, taskId, result, success, calls, reply, issued>>

act_raises_poisons(w, e) ==
    /\ pc[w] = "started"
    /\ hist' = [hist EXCEPT ![taskId[w]].work = "raised", ![taskId[w]].value = e,
                            ![taskId[w]].exited = TRUE]
    /\ pc' = [x \in Workers |-> IF pc[x] \in {"started", "acted"} THEN "raised" ELSE pc[x]]
    /\ UNCHANGED <<nbVars, tasks, nextId, clock, taskId, result, success, calls, reply, issued>>

\* nova_act.act raises: the exception leaves both with blocks and the function;
\* the line after the with block is not reached
act_raises(w, e) ==
    /\ pc[w] = "started"
    /\ hist' = [hist EXCEPT ![taskId[w]].work = "raised", ![taskId[w]].value = e,
                            ![taskId[w]].exited = TRUE]
    /\ pc' = [pc EXCEPT ![w] = "raised"]
    /\ UNCHANGED <<nbVars, tasks, nextId, clock, taskId, result, success, calls, reply, issued>>

complete_async_task_status_only(w) ==
    /\ pc[w] = "acted"
    /\ success' = [success EXCEPT ![w] = PyBool(CanComplete(tasks, taskId[w]))]
    /\ tasks' = CompleteTask(tasks, taskId[w], None)
    /\ hist' = [hist EXCEPT
                  ![taskId[w]].transitions = @ + Changed(tasks, tasks', taskId[w]),
                  ![taskId[w]].exited = TRUE]
    /\ calls' = [calls EXCEPT ![w] = 1]
    /\ pc' = [pc EXCEPT ![w] = "done"]
    /\ UNCHANGED <<nbVars, nextId, clock, taskId, result, reply, issued>>

complete_async_task_evicts(w) ==
    /\ pc[w] = "acted"
    /\ success' = [success EXCEPT ![w] = PyBool(CanComplete(tasks, taskId[w]))]
    /\ tasks' = [x \in (DOMAIN tasks) \ {taskId[w]} |-> tasks[x]]
    /\ hist' = [hist EXCEPT ![taskId[w]].transitions = @ + 1,
                            ![taskId[w]].exited = TRUE]
    /\ calls' = [calls EXCEPT ![w] = 1]
    /\ pc' = [pc EXCEPT ![w] = "done"]
    /\ UNCHANGED <<nbVars, nextId, clock, taskId, result, reply, issued>>

complete_async_task_shared_id(w) ==
    /\ pc[w] = "acted"
    /\ success' = [success EXCEPT ![w] = PyBool(CanComplete(tasks, issued[Len(issued)]))]
    /\ tasks' = CompleteTask(tasks, issued[Len(issued)], result[w])
    /\ hist' = [hist EXCEPT
                  ![issued[Len(issued)]].transitions =
                      @ + Changed(tasks, tasks', issued[Len(issued)]),
                  ![taskId[w]].exited = TRUE]
    /\ calls' = [calls EXCEPT ![w] = 1]
    /\ pc' = [pc EXCEPT ![w] = "done"]
    /\ UNCHANGED <<nbVars, nextId, clock, taskId, result, reply, issued>>

\* success = app.complete_async_task(task_id), the last line of the function
complete_async_task(w) ==
    /\ pc[w] = "acted"
    /\ success' = [success EXCEPT ![w] = PyBool(CanComplete(tasks, taskId[w]))]
    /\ tasks' = CompleteTask(tasks, taskId[w], result[w])
    /\ hist' = [hist EXCEPT
                  ![taskId[w]].transitions = @ + Changed(tasks, tasks', taskId[w]),
                  ![taskId[w]].exited = TRUE]
    /\ calls' = [calls EXCEPT ![w] = 1]
    /\ pc' = [pc EXCEPT ![w] = "done"]
    /\ UNCHANGED <<nbVars, nextId, clock, taskId, result, reply, issued>>

\* a further complete for the same task, with whatever payload the caller holds
complete_again(w, v) ==
    /\ pc[w] = "done"
    /\ calls[w] < MaxCompleteCalls
    /\ success' = [success EXCEPT ![w] = PyBool(CanComplete(tasks, taskId[w]))]
    /\ tasks' = CompleteTask(tasks, taskId[w], v)
    /\ hist' = [hist EXCEPT
                  ![taskId[w]].transitions = @ + Changed(tasks, tasks', taskId[w])]
    /\ calls' = [calls EXCEPT ![w] = @ + 1]
    /\ UNCHANGED <<nbVars, nextId, clock, pc, taskId, result, reply, issued>>

\* the execution unit is free again for another background task
worker_exit(w) ==
    /\ pc[w] \in {"done", "raised"}
    /\ nextId <= MaxTasks
    /\ pc' = [pc EXCEPT ![w] = "idle"]
    /\ taskId' = [taskId EXCEPT ![w] = 0]
    /\ result' = [result EXCEPT ![w] = None]
    /\ success' = [success EXCEPT ![w] = None]
    /\ calls' = [calls EXCEPT ![w] = 0]
    /\ UNCHANGED <<nbVars, tasks, nextId, clock, reply, hist, issued>>

\* ------------------------------------------------------------ the handler
get_result_creates(id) ==
    /\ tasks' = IF id \in DOMAIN tasks THEN tasks ELSE Register(tasks, id, clock)
    /\ hist' = [x \in (DOMAIN hist) \cup {id} |->
                    IF x \in DOMAIN hist THEN hist[x] ELSE NoHist]
    /\ reply' = Snapshot(tasks', id)
    /\ UNCHANGED <<nbVars, nextId, clock, pc, taskId, result, success, calls, issued>>

get_result_blocking(id) ==
    /\ id \in DOMAIN tasks => IsTerminal(tasks[id])
    /\ reply' = Snapshot(tasks, id)
    /\ UNCHANGED <<nbVars, tasks, nextId, clock, pc, taskId, result, success, calls, hist, issued>>

\* a conversational turn that asks for a task: it reads the registry snapshot
\* and answers from it, whatever the task's status
get_result(id) ==
    /\ reply' = Snapshot(tasks, id)
    /\ UNCHANGED <<nbVars, tasks, nextId, clock, pc, taskId, result, success, calls, hist, issued>>

\* time passes
Tick ==
    /\ clock < MaxClock
    /\ clock' = clock + 1
    /\ UNCHANGED <<nbVars, tasks, nextId, pc, taskId, result, success, calls, reply, hist, issued>>

Next ==
    \/ \E w \in Workers : add_async_task(w)
    \/ \E w \in Workers, v \in Payloads : act_returns(w, v)
    \/ \E w \in Workers, e \in Errors : act_raises(w, e)
    \/ \E w \in Workers : complete_async_task(w)
    \/ \E w \in Workers, v \in Payloads : complete_again(w, v)
    \/ \E w \in Workers : worker_exit(w)
    \/ \E id \in IdSpace : get_result(id)
    \/ Tick

Spec == Init /\ [][Next]_vars

\* ------------------------------------------- the notebook's deployment wait
MaxPolls == 2

\* end_status = ['READY', 'CREATE_FAILED', 'DELETE_FAILED', 'UPDATE_FAILED']
end_status == {"READY", "CREATE_FAILED", "DELETE_FAILED", "UPDATE_FAILED"}
\* what agentcore_runtime.status() can report besides
TransientStatuses == {"CREATING", "UPDATING", "DELETING"}
EndpointStatuses == end_status \cup TransientStatuses

\* the state in which the launch cell leaves the notebook
PollInit ==
    /\ tasks = << >>
    /\ nextId = 1
    /\ clock = 0
    /\ pc = [w \in Workers |-> "idle"]
    /\ taskId = [w \in Workers |-> 0]
    /\ result = [w \in Workers |-> None]
    /\ success = [w \in Workers |-> None]
    /\ calls = [w \in Workers |-> 0]
    /\ reply = NoReply
    /\ hist = << >>
    /\ issued = << >>
    /\ endpoint \in EndpointStatuses
    /\ status = None
    /\ loop = "launched"
    /\ polls = 0
    /\ OtherIdle

\* the service moves the endpoint to another status, at any time
endpoint_changes(s) ==
    /\ endpoint # s
    /\ endpoint' = s
    /\ UNCHANGED <<coordVars, otherNb, status, loop, polls>>

\* status_response = agentcore_runtime.status(); status = ...endpoint['status']
status_first ==
    /\ loop = "launched"
    /\ status' = endpoint
    /\ loop' = "test"
    /\ UNCHANGED <<coordVars, otherNb, endpoint, polls>>

while_test_limited ==
    /\ loop = "test"
    /\ loop' = IF status \notin end_status /\ polls < MaxPolls THEN "sleep" ELSE "exited"
    /\ UNCHANGED <<coordVars, otherNb, endpoint, status, polls>>

\* while status not in end_status:
while_test ==
    /\ loop = "test"
    /\ loop' = IF status \notin end_status THEN "sleep" ELSE "exited"
    /\ UNCHANGED <<coordVars, otherNb, endpoint, status, polls>>

\* time.sleep(10); status = agentcore_runtime.status().endpoint['status']; print(status)
\* (polls counts the reads up to MaxPolls and then stays; it limits nothing)
poll_status ==
    /\ loop = "sleep"
    /\ status' = endpoint
    /\ polls' = IF polls < MaxPolls THEN polls + 1 ELSE polls
    /\ loop' = "test"
    /\ UNCHANGED <<coordVars, otherNb, endpoint>>

\* the next cell: agentcore_runtime.invoke({"prompt": ...}), run once the wait cell has ended
invoke_first_turn ==
    /\ loop = "exited"
    /\ loop' = "invoked"
    /\ UNCHANGED <<coordVars, otherNb, endpoint, status, polls>>

WaitStep == status_first \/ while_test \/ poll_status

PollNext ==
    \/ \E s \in EndpointStatuses : endpoint_changes(s)
    \/ status_first
    \/ while_test
    \/ poll_status
    \/ invoke_first_turn

\* the cell is a sequential program: its next statement is eventually run
PollSpec == PollInit /\ [][PollNext]_vars /\ WF_vars(WaitStep)

\* ------------------------------------------------- the notebook's cleanup cell
MaxPolicies == 4
\* MaxItems=100 of list_role_policies
MaxItems == 100

PolicyNames == 1..MaxPolicies

\* the coordinator and the deployment wait at rest
BaseInit ==
    /\ tasks = << >>
    /\ nextId = 1
    /\ clock = 0
    /\ pc = [w \in Workers |-> "idle"]
    /\ taskId = [w \in Workers |-> 0]
    /\ result = [w \in Workers |-> None]
    /\ success = [w \in Workers |-> None]
    /\ calls = [w \in Workers |-> 0]
    /\ reply = NoReply
    /\ hist = << >>
    /\ issued = << >>
    /\ endpoint = "READY"
    /\ status = None
    /\ loop = "deployed"
    /\ polls = 0

Resource(kind, name) == [kind |-> kind, name |-> name]
TheRuntime == Resource("agent_runtime", 0)
TheRepository == Resource("ecr_repository", 0)
TheRole == Resource("role", 0)

Min(a, b) == IF a < b THEN a ELSE b

RECURSIVE InOrder(_)
\* the names of a set, in the order the service lists them
InOrder(S) ==
    IF S = {} THEN << >>
    ELSE LET m == CHOOSE x \in S : \A y \in S : x <= y
         IN  <<m>> \o InOrder(S \ {m})

\* iam_client.list_role_policies(RoleName=..., MaxItems=100)['PolicyNames']
ListRolePolicies(S) == SubSeq(InOrder(S), 1, Min(Cardinality(S), MaxItems))

CleanupInit ==
    /\ BaseInit
    /\ cpc = "delete_agent_runtime"
    /\ deleted = << >>
    /\ rolePolicies \in SUBSET PolicyNames
    /\ policies = << >>
    /\ nextPolicy = 1
    /\ failedAt = "none"
    /\ InvokeIdle
    /\ HaystackIdle

\* agentcore_control_client.delete_agent_runtime(agentRuntimeId=...)
delete_agent_runtime ==
    /\ cpc = "delete_agent_runtime"
    /\ deleted' = Append(deleted, TheRuntime)
    /\ cpc' = "delete_repository"
    /\ UNCHANGED <<coordVars, endpoint, status, loop, polls,
                   rolePolicies, policies, nextPolicy, failedAt, invokeVars, hayVars>>

\* ecr_client.delete_repository(repositoryName=..., force=True)
delete_repository ==
    /\ cpc = "delete_repository"
    /\ deleted' = Append(deleted, TheRepository)
    /\ cpc' = "list_role_policies"
    /\ UNCHANGED <<coordVars, endpoint, status, loop, polls,
                   rolePolicies, policies, nextPolicy, failedAt, invokeVars, hayVars>>

\* policies = iam_client.list_role_policies(...)
list_role_policies ==
    /\ cpc = "list_role_policies"
    /\ policies' = ListRolePolicies(rolePolicies)
    /\ nextPolicy' = 1
    /\ cpc' = "for_policy_name"
    /\ UNCHANGED <<coordVars, endpoint, status, loop, polls,
                   deleted, rolePolicies, failedAt, invokeVars, hayVars>>

\* for policy_name in policies['PolicyNames']: iam_client.delete_role_policy(...)
delete_role_policy ==
    /\ cpc = "for_policy_name"
    /\ nextPolicy <= Len(policies)
    /\ rolePolicies' = rolePolicies \ {policies[nextPolicy]}
    /\ deleted' = Append(deleted, Resource("role_policy", policies[nextPolicy]))
    /\ nextPolicy' = nextPolicy + 1
    /\ UNCHANGED <<coordVars, endpoint, status, loop, polls, cpc, policies, failedAt,
                   invokeVars, hayVars>>

delete_role_in_loop ==
    /\ cpc = "for_policy_name"
    /\ nextPolicy > 1 \/ Len(policies) = 0
    /\ deleted' = Append(deleted, TheRole)
    /\ cpc' = "done"
    /\ UNCHANGED <<coordVars, endpoint, status, loop, polls,
                   rolePolicies, policies, nextPolicy, failedAt, invokeVars, hayVars>>

\* iam_response = iam_client.delete_role(RoleName=...), after the loop; the
\* service accepts it only for a role without inline policies
delete_role ==
    /\ cpc = "for_policy_name"
    /\ nextPolicy > Len(policies)
    /\ rolePolicies = {}
    /\ deleted' = Append(deleted, TheRole)
    /\ cpc' = "done"
    /\ UNCHANGED <<coordVars, endpoint, status, loop, polls,
                   rolePolicies, policies, nextPolicy, failedAt, invokeVars, hayVars>>

\* the call that comes next, by name
NextCall ==
    IF cpc # "for_policy_name" THEN cpc
    ELSE IF nextPolicy <= Len(policies) THEN "delete_role_policy" ELSE "delete_role"

\* a call raises (botocore ClientError): nothing around it catches, the cell ends
call_raises ==
    /\ cpc \in {"delete_agent_runtime", "delete_repository", "list_role_policies",
                "for_policy_name"}
    /\ failedAt' = NextCall
    /\ cpc' = "raised"
    /\ UNCHANGED <<coordVars, endpoint, status, loop, polls,
                   deleted, rolePolicies, policies, nextPolicy, invokeVars, hayVars>>

CleanupNext ==
    \/ delete_agent_runtime
    \/ delete_repository
    \/ list_role_policies
    \/ delete_role_policy
    \/ delete_role
    \/ call_raises

CleanupSpec == CleanupInit /\ [][CleanupNext]_vars

\* ------------------------------------------ the notebook's boto3 invocation cell
MaxChunks == 2

\* what the runtime sends, chunk by chunk, as bytes
Chunks == {"", "data: found 3 headphones", "found 3 headphones", "\"found 3 headphones\""}
ContentTypes == {"text/event-stream", "application/json"}
ReadErrors == {"ReadTimeoutError"}

BytesOf(t) == [type |-> "bytes", text |-> t]
StrOf(t) == [type |-> "str", text |-> t]

\* line.startswith("data: ") and line[6:]
StartsWithData(l) == l = "data: found 3 headphones"
From6(l) == "found 3 headphones"

\* json.loads(s) for the texts above: only the quoted one is a JSON document
IsJson(s) == s = "\"found 3 headphones\""
json_loads(s) == "found 3 headphones"

\* f"Error reading EventStream: {e}"
ErrorMessage(e) == "Error reading EventStream: " \o e

RECURSIVE SeqsUpTo(_, _)
SeqsUpTo(S, n) ==
    IF n = 0 THEN {<< >>}
    ELSE LET shorter == SeqsUpTo(S, n - 1)
         IN  shorter \cup {Append(q, x) : q \in shorter, x \in S}

InvokeInit ==
    /\ BaseInit
    /\ CleanupIdle
    /\ HaystackIdle
    /\ ipc = "if_event_stream"
    /\ contentType \in ContentTypes
    /\ response \in SeqsUpTo(Chunks, MaxChunks)
    /\ content = << >>
    /\ events = << >>
    /\ shown = << >>
    /\ escaped = "none"

\* if "text/event-stream" in boto3_response.get("contentType", ""): ... else: ...
if_event_stream ==
    /\ ipc = "if_event_stream"
    /\ ipc' = IF contentType = "text/event-stream" THEN "iter_lines" ELSE "for_event"
    /\ UNCHANGED <<coordVars, endpoint, status, loop, polls, cleanupVars, hayVars,
                   contentType, response, content, events, shown, escaped>>

\* one turn of: for line in boto3_response["response"].iter_lines(chunk_size=1)
iter_lines ==
    /\ ipc = "iter_lines"
    /\ response # << >>
    /\ response' = Tail(response)
    /\ content' = IF Head(response) # "" /\ StartsWithData(Head(response))
                  THEN Append(content, From6(Head(response)))
                  ELSE content
    /\ UNCHANGED <<coordVars, endpoint, status, loop, polls, cleanupVars, hayVars,
                   ipc, contentType, events, shown, escaped>>

\* reading a line raises: this branch has no try
iter_lines_raises(e) ==
    /\ ipc = "iter_lines"
    /\ escaped' = e
    /\ ipc' = "done"
    /\ UNCHANGED <<coordVars, endpoint, status, loop, polls, cleanupVars, hayVars,
                   contentType, response, content, events, shown>>

\* display(Markdown("\n".join(content)))
display_content ==
    /\ ipc = "iter_lines"
    /\ response = << >>
    /\ shown' = Append(shown, content)
    /\ ipc' = "done"
    /\ UNCHANGED <<coordVars, endpoint, status, loop, polls, cleanupVars, hayVars,
                   contentType, response, content, events, escaped>>

\* one turn of: for event in boto3_response.get("response", []): events.append(event)
for_event ==
    /\ ipc = "for_event"
    /\ response # << >>
    /\ events' = Append(events, BytesOf(Head(response)))
    /\ response' = Tail(response)
    /\ UNCHANGED <<coordVars, endpoint, status, loop, polls, cleanupVars, hayVars,
                   ipc, contentType, content, shown, escaped>>

\* the loop ends with the response read
for_event_ends ==
    /\ ipc = "for_event"
    /\ response = << >>
    /\ ipc' = "display_events"
    /\ UNCHANGED <<coordVars, endpoint, status, loop, polls, cleanupVars, hayVars,
                   contentType, response, content, events, shown, escaped>>

\* except Exception as e: events = [f"Error reading EventStream: {e}"]
except_Exception(e) ==
    /\ ipc = "for_event"
    /\ events' = <<StrOf(ErrorMessage(e))>>
    /\ ipc' = "display_events"
    /\ UNCHANGED <<coordVars, endpoint, status, loop, polls, cleanupVars, hayVars,
                   contentType, response, content, shown, escaped>>

\* display(Markdown(json.loads(events[0].decode("utf-8")))), after the try
display_events ==
    /\ ipc = "display_events"
    /\ ipc' = "done"
    /\ IF events = << >>
       THEN escaped' = "IndexError" /\ shown' = shown
       ELSE IF events[1].type # "bytes"
       THEN escaped' = "AttributeError" /\ shown' = shown
       ELSE IF ~IsJson(events[1].text)
       THEN escaped' = "JSONDecodeError" /\ shown' = shown
       ELSE escaped' = escaped /\ shown' = Append(shown, <<json_loads(events[1].text)>>)
    /\ UNCHANGED <<coordVars, endpoint, status, loop, polls, cleanupVars, hayVars,
                   contentType, response, content, events>>

InvokeNext ==
    \/ if_event_stream
    \/ iter_lines
    \/ \E e \in ReadErrors : iter_lines_raises(e)
    \/ display_content
    \/ for_event
    \/ for_event_ends
    \/ \E e \in ReadErrors : except_Exception(e)
    \/ display_events

InvokeSpec == InvokeInit /\ [][InvokeNext]_vars

\* --------------------------------------------- the Haystack agent_invocation
MaxReplies == 2

\* the default of payload.get("prompt", ...)
NoPromptFound == "No prompt found in input, please guide customer to create a json payload with prompt key"

Item(k, v) == [key |-> k, value |-> v]
PayloadKeys == {"prompt", "input"}
PayloadValues == {"Explain the Github issue", ""}
\* a mapping: at most one item for a key
Mappings == {m \in SUBSET {Item(k, v) : k \in PayloadKeys, v \in PayloadValues} :
                \A a, b \in m : a.key = b.key => a = b}
HasKey(m, k) == \E a \in m : a.key = k
\* m.get(k, default)
Get(m, k, default) ==
    IF HasKey(m, k) THEN (CHOOSE a \in m : a.key = k).value ELSE default

\* what the agent appends to the messages it was given: the text of a message
\* without text content is None
ReplyTexts == {"The issue reports a crash", None}
Replies == SeqsUpTo({[role |-> "assistant", text |-> t] : t \in ReplyTexts}, MaxReplies)
              \ {<< >>}

HaystackInit ==
    /\ BaseInit
    /\ CleanupIdle
    /\ InvokeIdle
    /\ hpc = "get_prompt"
    /\ payload \in Mappings
    /\ prompt = None
    /\ user_message = [role |-> "user", text |-> None]
    /\ agentRun = "not_started"
    /\ messages = << >>
    /\ text = None
    /\ returned = << >>

get_prompt_subscript ==
    /\ hpc = "get_prompt"
    /\ IF HasKey(payload, "prompt")
       THEN prompt' = Get(payload, "prompt", NoPromptFound) /\ hpc' = "from_user"
       ELSE prompt' = prompt /\ hpc' = "done"
    /\ UNCHANGED <<coordVars, endpoint, status, loop, polls, cleanupVars, invokeVars,
                   payload, user_message, agentRun, messages, text, returned>>

\* payload = payload.get("prompt", "No prompt found in input, ...")
get_prompt ==
    /\ hpc = "get_prompt"
    /\ prompt' = Get(payload, "prompt", NoPromptFound)
    /\ hpc' = "from_user"
    /\ UNCHANGED <<coordVars, endpoint, status, loop, polls, cleanupVars, invokeVars,
                   payload, user_message, agentRun, messages, text, returned>>

\* user_message = ChatMessage.from_user(payload)
from_user ==
    /\ hpc = "from_user"
    /\ user_message' = [role |-> "user", text |-> prompt]
    /\ hpc' = "run"
    /\ UNCHANGED <<coordVars, endpoint, status, loop, polls, cleanupVars, invokeVars,
                   payload, prompt, agentRun, messages, text, returned>>

\* result = tool_calling_agent.run(messages=[user_message]): the call is made
run_called ==
    /\ hpc = "run"
    /\ agentRun = "not_started"
    /\ agentRun' = "running"
    /\ messages' = <<user_message>>
    /\ UNCHANGED <<coordVars, endpoint, status, loop, polls, cleanupVars, invokeVars,
                   hpc, payload, prompt, user_message, text, returned>>

\* ... and returns, the handler having waited for it
run_returns(replies) ==
    /\ hpc = "run"
    /\ agentRun = "running"
    /\ agentRun' = "finished"
    /\ messages' = messages \o replies
    /\ hpc' = "last_text"
    /\ UNCHANGED <<coordVars, endpoint, status, loop, polls, cleanupVars, invokeVars,
                   payload, prompt, user_message, text, returned>>

\* result = result["messages"][-1].text
last_text ==
    /\ hpc = "last_text"
    /\ text' = messages[Len(messages)].text
    /\ hpc' = "return"
    /\ UNCHANGED <<coordVars, endpoint, status, loop, polls, cleanupVars, invokeVars,
                   payload, prompt, user_message, agentRun, messages, returned>>

\* return {"result": result}
return_result ==
    /\ hpc = "return"
    /\ returned' = Append(returned, {Item("result", text)})
    /\ hpc' = "done"
    /\ UNCHANGED <<coordVars, endpoint, status, loop, polls, cleanupVars, invokeVars,
                   payload, prompt, user_message, agentRun, messages, text>>

HaystackNext ==
    \/ get_prompt
    \/ from_user
    \/ run_called
    \/ \E replies \in Replies : run_returns(replies)
    \/ last_text
    \/ return_result

HaystackSpec == HaystackInit /\ [][HaystackNext]_vars

\* ------------------------------------------------------------- properties
Registered == DOMAIN tasks

\* a step of the handler that reads task id
Reads(id) == get_result(id)

\* C1: every task makes at most one terminal transition, and once a task is
\* terminal no step of any operation changes its status, result or error.
C1_OneTransition == \A t \in Registered : hist[t].transitions <= 1
C1_Frozen ==
    \A t \in Registered : IsTerminal(tasks[t]) =>
        /\ tasks'[t].status = tasks[t].status
        /\ tasks'[t].result = tasks[t].result
        /\ tasks'[t].error = tasks[t].error
C1_TerminalIsFinal == [](C1_OneTransition) /\ [][C1_Frozen]_vars

\* a terminal task on which a later complete and a later get_result have acted
C1_Witness ==
    \E w \in Workers :
        /\ pc[w] = "done" /\ calls[w] >= 2
        /\ IsTerminal(tasks[taskId[w]])
        /\ reply.kind = "Task" /\ reply.id = taskId[w] /\ reply.status \in Terminal

C3_FailureCaptured ==
    \A t \in Registered : (hist[t].work = "raised" /\ hist[t].exited) =>
        /\ tasks[t].status = "failed"
        /\ tasks[t].error = hist[t].value
        /\ hist[t].transitions = 1

\* C4: a get_result on a registered task that has made no terminal transition
\* answers pending or running, with no result and no error.
C4_Read ==
    \A id \in IdSpace :
        (Reads(id) /\ id \in Registered /\ hist[id].transitions = 0) =>
            /\ reply'.kind = "Task"
            /\ reply'.status \in NonTerminal
            /\ reply'.result = None
            /\ reply'.error = None
C4_NoResultBeforeTerminal == [][C4_Read]_vars

\* a read of a task whose work has already returned, before its terminal transition
C4_Witness ==
    /\ reply.kind = "Task" /\ reply.status \in NonTerminal
    /\ reply.id \in Registered
    /\ hist[reply.id].work = "returned" /\ hist[reply.id].transitions = 0

\* C5: complete is idempotent: on every reachable registry, completing a task
\* twice gives the registry that completing it once gives, and a complete
\* call on a task that is already terminal changes neither the registry nor
\* the number of transitions made.
C5_Twice ==
    \A t \in Registered : \A v1, v2 \in Payloads :
        CompleteTask(CompleteTask(tasks, t, v1), t, v2) = CompleteTask(tasks, t, v1)
C5_SecondCall ==
    \A w \in Workers : \A v \in Payloads :
        (complete_again(w, v) /\ IsTerminal(tasks[taskId[w]])) =>
            /\ tasks' = tasks
            /\ hist'[taskId[w]].transitions = hist[taskId[w]].transitions
            /\ success'[w] = "False"
C5_CompleteIdempotent == [](C5_Twice) /\ [][C5_SecondCall]_vars

\* a second complete call has been made on a completed task
C5_Witness ==
    \E w \in Workers :
        /\ calls[w] = 2 /\ success[w] = "False"
        /\ tasks[taskId[w]].status = "completed"
        /\ tasks[taskId[w]].result = result[w]

\* C6: a get_result with an identifier the registry does not hold answers
\* TaskNotFound and leaves the registry as it was, with no entry for it.
C6_Read ==
    \A id \in IdSpace :
        (Reads(id) /\ id \notin Registered) =>
            /\ reply'.kind = "TaskNotFound"
            /\ tasks' = tasks
            /\ id \notin DOMAIN tasks'
C6_UnknownIdNotFound == [][C6_Read]_vars

\* TaskNotFound was answered for an identifier that is still not registered,
\* while other tasks are
C6_Witness ==
    /\ reply.kind = "TaskNotFound"
    /\ reply.id \notin Registered
    /\ Registered # {}

\* C7: when start hands back the identifier the work has not run yet; a
\* get_result between the return of start and the end of the work answers
\* running, and one after the work has returned and the function running it
\* has ended answers completed with the value the work returned.
C7_StartFirst ==
    \A w \in Workers : pc[w] = "started" =>
        /\ taskId[w] \in Registered
        /\ hist[taskId[w]].work = None
        /\ tasks[taskId[w]].status = "running"
C7_Read ==
    \A id \in IdSpace : (Reads(id) /\ id \in Registered) =>
        /\ hist[id].work = None =>
              reply'.status = "running" /\ reply'.result = None
        /\ (hist[id].work = "returned" /\ hist[id].exited) =>
              reply'.status = "completed" /\ reply'.result = hist[id].value
C8_HandlerNeverWaits == \A id \in IdSpace : ENABLED get_result(id)

\* a handler turn has answered for a task whose work is still running, while
\* another task is running too
C8_Witness ==
    /\ reply.kind = "Task" /\ reply.status = "running"
    /\ \A w \in Workers : pc[w] = "started"
    /\ \E w \in Workers : reply.id = taskId[w]

C10_UniqueIds ==
    /\ \A i, j \in 1..Len(issued) : i # j => issued[i] # issued[j]
    /\ \A i \in 1..Len(issued) : issued[i] \in Registered
    /\ Cardinality(Registered) = Len(issued)
    /\ \A w1, w2 \in Workers :
          (w1 # w2 /\ pc[w1] # "idle" /\ pc[w2] # "idle") => taskId[w1] # taskId[w2]

\* two start calls have returned and both tasks are in flight at once
C10_Witness ==
    /\ Len(issued) >= 2
    /\ \A w \in Workers : pc[w] \in {"started", "acted"}

LoopLeft == loop \in {"exited", "invoked"}

\* C11: whenever the deployment wait has ended, and so whenever the first
\* invocation is made, the last status read is READY.
C11_ReadyBeforeInvoke == LoopLeft => status = "READY"

\* C20: the wait loop is left exactly when the last status read is one of
\* READY, CREATE_FAILED, DELETE_FAILED, UPDATE_FAILED: it is never left with
\* another status and never continued with one of these; once a read gives
\* one of them, or the service stays in one of them, the loop ends; and as
\* long as the service reports none of them the loop keeps reading, beyond
\* any number of reads.
C20_ExitIffEnd ==
    /\ LoopLeft => status \in end_status
    /\ loop = "sleep" => status \notin end_status
C20_PollingLoop ==
    /\ [](C20_ExitIffEnd)
    /\ (loop = "test" /\ status \in end_status) ~> LoopLeft
    /\ (<>[](endpoint \in end_status)) => <>LoopLeft
    /\ ([](endpoint \notin end_status)) => ([]<>(loop = "sleep") /\ <>(polls = MaxPolls))

\* the loop ended on a failure status after reading more than once
C20_Witness ==
    /\ loop = "exited" /\ status = "UPDATE_FAILED" /\ polls = MaxPolls

\* C12: no worker waits for another task: whatever the other tasks are doing, an
\* idle worker can register a task (while identifiers are left), a worker
\* whose task is registered can run its work, and a worker whose work has
\* returned can complete its task.
C12_NoMutualWaiting ==
    \A w \in Workers :
        /\ (pc[w] = "idle" /\ nextId <= MaxTasks) => ENABLED add_async_task(w)
        /\ pc[w] = "started" => \A v \in Payloads : ENABLED act_returns(w, v)
        /\ pc[w] = "acted" => ENABLED complete_async_task(w)

\* two tasks are running at once, each held by its own worker
C12_Witness ==
    \E w1, w2 \in Workers :
        /\ w1 # w2 /\ pc[w1] = "started" /\ pc[w2] = "started"
        /\ tasks[taskId[w1]].status = "running"
        /\ tasks[taskId[w2]].status = "running"

\* C13: a task's status only moves pending -> running -> completed or failed:
\* start registers it pending and has made it running when it returns, no
\* step takes a status backwards or to a terminal status from anything but
\* running, and no worker holds a task that is still pending.
Forward(s1, s2) ==
    \/ s1 = s2
    \/ <<s1, s2>> \in {<<"pending", "running">>, <<"running", "completed">>,
                       <<"running", "failed">>}
C13_StartPath ==
    \A id \in IdSpace \ Registered :
        /\ Register(tasks, id, clock)[id].status = "pending"
        /\ StartTask(tasks, id, clock)[id].status = "running"
C13_Held == \A w \in Workers : pc[w] # "idle" => tasks[taskId[w]].status # "pending"
C13_Steps ==
    /\ \A t \in Registered :
          t \in DOMAIN tasks' => Forward(tasks[t].status, tasks'[t].status)
    /\ \A t \in (DOMAIN tasks') \ Registered : tasks'[t].status = "running"
C13_StatusForward == [](C13_StartPath /\ C13_Held) /\ [][C13_Steps]_vars

\* one task has gone all the way to completed while another is running
C13_Witness ==
    \E t, u \in Registered :
        /\ tasks[t].status = "completed" /\ hist[t].transitions = 1
        /\ tasks[u].status = "running"

\* C14: a complete call returns True exactly when that call moves the task to
\* completed; on a task that is already terminal (completed, or failed) it
\* returns False and changes nothing.
C14_Call ==
    \A w \in Workers : calls'[w] > calls[w] =>
        /\ success'[w] = "True" <=>
              /\ tasks[taskId[w]].status # "completed"
              /\ tasks'[taskId[w]].status = "completed"
        /\ IsTerminal(tasks[taskId[w]]) => (success'[w] = "False" /\ tasks' = tasks)
C14_OnFailed ==
    \A t \in Registered : \A e \in Errors : \A v \in Payloads :
        LET failed == [tasks EXCEPT ![t].status = "failed", ![t].error = e]
        IN  ~CanComplete(failed, t) /\ CompleteTask(failed, t, v) = failed
C14_CompleteReturn == [](C14_OnFailed) /\ [][C14_Call]_vars

\* one complete call has returned True and a later one on the same task False
C14_Witness ==
    \E w1, w2 \in Workers :
        /\ calls[w1] = 1 /\ success[w1] = "True"
        /\ calls[w2] = 2 /\ success[w2] = "False"

\* C15: no step removes an identifier from the registry, and get_result finds
\* every identifier start has returned, whatever the task's status.
C15_Kept == \A i \in 1..Len(issued) : Snapshot(tasks, issued[i]).kind = "Task"
C15_AppendOnly == [](C15_Kept) /\ [][Registered \subseteq DOMAIN tasks']_vars

\* every identifier has been given out and every task is completed and still there
C15_Witness ==
    /\ Len(issued) = MaxTasks
    /\ \A i \in 1..Len(issued) :
          issued[i] \in Registered /\ tasks[issued[i]].status = "completed"

\* C16: no two workers hold the same task; a task record changes only in a
\* step of the worker that holds it; a handler read changes no task record.
C16_Holders ==
    \A w1, w2 \in Workers :
        (w1 # w2 /\ taskId[w1] \in Registered) => taskId[w1] # taskId[w2]
C16_Writes ==
    /\ \A t \in Registered :
          (t \in DOMAIN tasks' /\ tasks'[t] # tasks[t]) =>
              \E w \in Workers :
                  taskId[w] = t /\ (pc'[w] # pc[w] \/ calls'[w] # calls[w])
    /\ reply' # reply => tasks' = tasks
C16_SingleWriter == [](C16_Holders) /\ [][C16_Writes]_vars

\* one worker has made its terminal update while another holds a running task
C16_Witness ==
    \E w1, w2 \in Workers :
        /\ pc[w1] = "done" /\ tasks[taskId[w1]].status = "completed"
        /\ pc[w2] = "started" /\ tasks[taskId[w2]].status = "running"

\* C17: a failure stops nothing: the step in which a task's work raises leaves
\* every other task, its history and its worker as they were, a TaskNotFound
\* answer changes nothing but the answer, and once a work has raised or
\* TaskNotFound was answered every operation is still enabled for the others.
Failed(t) == hist[t].work = "raised"
C17_Usable ==
    ((\E t \in Registered : Failed(t)) \/ reply.kind = "TaskNotFound") =>
        /\ \A w \in Workers :
              /\ (pc[w] = "idle" /\ nextId <= MaxTasks) => ENABLED add_async_task(w)
              /\ pc[w] = "started" => \A v \in Payloads : ENABLED act_returns(w, v)
              /\ pc[w] = "acted" => ENABLED complete_async_task(w)
        /\ \A id \in IdSpace : ENABLED get_result(id)
C17_Step ==
    /\ \A t \in Registered : (Failed(t)' /\ ~Failed(t)) =>
          /\ \A u \in Registered \ {t} : tasks'[u] = tasks[u] /\ hist'[u] = hist[u]
          /\ \A w \in Workers : taskId[w] # t => pc'[w] = pc[w]
          /\ nextId' = nextId
    /\ (reply'.kind = "TaskNotFound" /\ reply' # reply) =>
          UNCHANGED <<tasks, nextId, pc, taskId, hist, issued>>
C17_FailureNotFatal == [](C17_Usable) /\ [][C17_Step]_vars

\* after the work of one task raised, a task started later was completed
C17_Witness ==
    \E t, u \in Registered :
        /\ Failed(t) /\ t < u
        /\ tasks[u].status = "completed" /\ tasks[u].result = hist[u].value

\* C18: every task whose function has been left is completed or failed.
C18_RunsToTerminal ==
    \A t \in Registered : hist[t].exited => IsTerminal(tasks[t])

\* C19: a step of a worker changes no field of any task but its own.
C19_Frame ==
    \A w \in Workers : (pc'[w] # pc[w] \/ calls'[w] # calls[w]) =>
        \A t \in Registered : (t # taskId[w] /\ t # taskId'[w]) =>
            /\ t \in DOMAIN tasks'
            /\ tasks'[t].status = tasks[t].status
            /\ tasks'[t].result = tasks[t].result
            /\ tasks'[t].error = tasks[t].error
            /\ tasks'[t].created = tasks[t].created
C19_OtherTasksUntouched == [][C19_Frame]_vars

\* a task created later than another has been completed while the other is
\* still running with its own creation time
C19_Witness ==
    \E t, u \in Registered :
        /\ tasks[t].status = "running" /\ tasks[u].status = "completed"
        /\ tasks[t].created < tasks[u].created

\* C21: whenever a run of _run_browser_task has ended, on the returning and on
\* the raising path, complete_async_task has been called for the task it
\* registered; and complete_async_task is only ever called with an
\* identifier add_async_task returned, after the work has ended.
C21_AlwaysCompleted ==
    \A w \in Workers :
        /\ pc[w] \in {"done", "raised"} => calls[w] >= 1
        /\ calls[w] >= 1 =>
              /\ \E i \in 1..Len(issued) : issued[i] = taskId[w]
              /\ hist[taskId[w]].work # None

\* C22: the cleanup deletes the agent runtime, then the ECR repository, then
\* the listed inline policies of the role in the order listed, then the role:
\* what has been deleted is always a beginning of that sequence; the role is
\* deleted only when every listed policy has been; and when a call has raised
\* nothing after it is deleted and no further call is made.
PolicyResources == [i \in 1..Len(policies) |-> Resource("role_policy", policies[i])]
CleanupOrder == <<TheRuntime, TheRepository>> \o PolicyResources \o <<TheRole>>
IsPrefix(a, b) == Len(a) <= Len(b) /\ \A i \in 1..Len(a) : a[i] = b[i]
Deleted(r) == \E i \in 1..Len(deleted) : deleted[i] = r
C22_CleanupOrder ==
    /\ IsPrefix(deleted, CleanupOrder)
    /\ Deleted(TheRole) =>
          /\ cpc = "done"
          /\ \A i \in 1..Len(policies) : Deleted(PolicyResources[i])
          /\ Deleted(TheRuntime) /\ Deleted(TheRepository)
    /\ cpc = "raised" =>
          /\ ~Deleted(TheRole)
          /\ ~ENABLED CleanupNext
          /\ failedAt = "delete_agent_runtime" => deleted = << >>
          /\ failedAt = "delete_repository" => deleted = <<TheRuntime>>
          /\ failedAt = "list_role_policies" => deleted = <<TheRuntime, TheRepository>>
          /\ failedAt = "delete_role_policy" =>
                deleted = SubSeq(CleanupOrder, 1, nextPolicy + 1)
          /\ failedAt = "delete_role" =>
                deleted = SubSeq(CleanupOrder, 1, Len(policies) + 2)

\* the role has been deleted after all of several listed policies
C22_Witness ==
    /\ cpc = "done" /\ Deleted(TheRole)
    /\ Len(policies) = MaxPolicies
    /\ Len(deleted) = MaxPolicies + 3

\* C23: when the response is not an event stream and reading its events has
\* raised, the cell ends having displayed the "Error reading EventStream"
\* message, with no exception leaving it.
ReadRaised ==
    /\ contentType # "text/event-stream"
    /\ \E e \in ReadErrors : events = <<StrOf(ErrorMessage(e))>>
C23_ReadErrorDisplayed ==
    ipc = "done" /\ ReadRaised =>
        /\ escaped = "none"
        /\ shown = <<<<events[1].text>>>>

\* C24: agent_invocation ends, for every payload, by returning once a mapping
\* whose single key is result and whose value is the text of the last message
\* of the agent run; it returns only after the run has finished; and for a
\* payload without a prompt key the agent was run on the fallback instruction.
C24_HandlerTotal ==
    /\ hpc = "done" => Len(returned) = 1
    /\ \A i \in 1..Len(returned) :
          /\ agentRun = "finished"
          /\ returned[i] = {Item("result", messages[Len(messages)].text)}
    /\ agentRun # "not_started" =>
          messages[1] = [role |-> "user",
                         text |-> IF HasKey(payload, "prompt")
                                  THEN Get(payload, "prompt", None)
                                  ELSE NoPromptFound]

\* a payload without a prompt key has been answered from several agent messages
C24_Witness ==
    /\ hpc = "done"
    /\ ~HasKey(payload, "prompt") /\ payload # {}
    /\ Len(messages) = MaxReplies + 1
    /\ returned = <<{Item("result", "The issue reports a crash")}>>

====
